---- MODULE Spec2Model ----
(***************************************************************************)
(* Verification model of the structural-truss pipeline:                    *)
(*   01 Network Extraction, 02 Connector Analysis, 04 Connector Engineer,  *)
(*   05 Half-Lap Detector, 06 Half-Lap Cutter, 09 Boolean Voids.           *)
(*                                                                         *)
(* Lengths of the network builder are integers in grid units of 0.05, so   *)
(* the merge tolerance 0.1 is 2 units and "distance < tolerance" is the    *)
(* exact comparison dx^2+dy^2+dz^2 < tolerance^2.                          *)
(***************************************************************************)
EXTENDS Integers, Sequences, FiniteSets, TLC

\* ------------------------------------------------------------------ bounds
MaxLines == 2      \* lines the user may select
MaxX     == 2      \* x coordinates 0..MaxX, in grid units
MaxGrid  == 2      \* the detector's nodes lie on a (MaxGrid+1)^2 grid
MaxBeams == 3      \* edges in the network the detector reads
MaxFailures == 1   \* beam pairs whose boolean intersection may fail
LoadStep == 500    \* force components are multiples of LoadStep newtons
MaxLoadSteps == 8  \* up to MaxLoadSteps * LoadStep newtons per component
MaxClassNodes == 5 \* nodes of a network file handed to the classifier
MaxMergeNodes == 2 \* nodes already built when one more line is processed
BlockLoadStep == 2500  \* block sizing loads are multiples of it, in newtons
MaxBlockSteps == 80    \* up to MaxBlockSteps * BlockLoadStep newtons

\* --------------------------------------------------------------- constants
tolerance == 2     \* 0.1 in grid units of 0.05

Far == 5 * tolerance   \* row spacing of the builder's points

Rows == {0, Far}       \* y coordinates of the two rows of points

\* a file is the one-element sequence of its content; an absent file is <<>>
NoFile == <<>>

VARIABLES
    \* 01 Network Extraction
    pc01,          \* "select" | "build" | "save" | "done" | "exit"
    n_selected,    \* len(selected_ids)
    i,             \* lines of lines_data already processed by the loop
    vertex_map,    \* sequence of positions; node id k is vertex_map[k+1]
    edge,          \* network.edge: edge[k+1] = targets stored under node k
    v_ids,         \* per processed line, <<v_start, v_end>>
    resolved,      \* every <<endpoint, node id>> get_or_create_vertex returned
    network_file,  \* truss_network.json, or NoFile
    \* 02 Connector Analysis
    pc02,          \* "idle" | "exit" | "crashed" | "done"
    spec_file,     \* truss_connector_spec.json, or NoFile
    \* 04 Connector Engineer, one entry of NODE_LOADS
    loads,         \* [vertical_N, lateral_N, tension_N] of the node
    eng,           \* ENGINEERING_RESULTS[node_id], or NoFile before the loop body
    engineered_file, \* truss_connector_engineered.json, or NoFile
    combined_load, \* a node loaded along one axis: its combined_load, newtons
    block_info,    \* what the loop body has for that node, or NoFile before it
    \* the scripts as batch invocations over the shared output directory
    fs,            \* names of the files and document layers that exist
    last_run,      \* the latest invocation: script, inputs missing, outcome
    \* 05 Half-Lap Detector
    lap_edges,     \* network_data['edges'] as read from truss_network.json
    pc05,          \* "start" | "done"
    intersections, \* the intersection records, in the order appended
    halflap_file,  \* half_lap_specifications.csv, or NoFile
    beam_pair,     \* two intersecting beams: end - start of each, and how the
                   \* network file lists the same two beams a second time
    cut_records,   \* the records of the pair as listed first and second
    tested,        \* the pairs of beam keys the nested loops went through
    raised,        \* the pairs whose boolean intersection raised
    summary,       \* the counts the summary prints, or <<>> before it
    \* 06 Half-Lap Cutter
    pc06,          \* "idle" | "done"
    cuts           \* per row cut, the row and the cut_size of its boxes

netvars == <<pc01, n_selected, i, vertex_map, edge, v_ids, resolved,
             network_file, pc02, spec_file>>

loadvars == <<loads, eng, engineered_file, combined_load, block_info>>

stagevars == <<fs, last_run>>

lapvars == <<lap_edges, pc05, intersections, halflap_file, beam_pair,
            cut_records, tested, raised, summary, pc06, cuts>>

vars == <<pc01, n_selected, i, vertex_map, edge, v_ids, resolved,
          network_file, pc02, spec_file, loads, eng, engineered_file,
          combined_load, block_info, fs, last_run,
          lap_edges, pc05, intersections, halflap_file, beam_pair,
          cut_records, tested, raised, summary, pc06, cuts>>

\* ------------------------------------------------------------------ helpers
Range(s) == {s[k] : k \in 1..Len(s)}

SetMin(S) == CHOOSE m \in S : \A n \in S : m <= n

Points == {<<x, y, 0>> : x \in 0..MaxX, y \in Rows}

Lines == [start : Points, end : Points]

Dist2(p, q) == (p[1] - q[1]) * (p[1] - q[1])
             + (p[2] - q[2]) * (p[2] - q[2])
             + (p[3] - q[3]) * (p[3] - q[3])

\* ------------------------------------------------- 01 Network Extraction
\* get_or_create_vertex: first existing key, in creation order, closer than
\* the tolerance; otherwise a new node with the next integer key.
\* variant: the test is "distance <= tolerance"
WithinTolerance_Leq(pt, vm) ==
    {k \in 1..Len(vm) : Dist2(pt, vm[k]) <= tolerance * tolerance}

\* variant: only the node created last is compared
WithinTolerance_LastOnly(pt, vm) ==
    {k \in {Len(vm)} \ {0} : Dist2(pt, vm[k]) < tolerance * tolerance}

WithinTolerance(pt, vm) ==
    {k \in 1..Len(vm) : Dist2(pt, vm[k]) < tolerance * tolerance}

\* variant: a miss registers the new point twice
get_or_create_vertex_twice(pt, vm) ==
    IF WithinTolerance(pt, vm) # {}
    THEN [key |-> SetMin(WithinTolerance(pt, vm)) - 1, vmap |-> vm]
    ELSE [key |-> Len(vm), vmap |-> Append(Append(vm, pt), pt)]

\* variant: a merge moves the node to the merged point
get_or_create_vertex_moves(pt, vm) ==
    IF WithinTolerance(pt, vm) # {}
    THEN [key |-> SetMin(WithinTolerance(pt, vm)) - 1,
          vmap |-> [vm EXCEPT ![SetMin(WithinTolerance(pt, vm))] = pt]]
    ELSE [key |-> Len(vm), vmap |-> Append(vm, pt)]

\* variant: the nearest node within the tolerance is returned
get_or_create_vertex_nearest(pt, vm) ==
    IF WithinTolerance(pt, vm) # {}
    THEN [key |-> SetMin({k \in WithinTolerance(pt, vm) :
                             \A j \in WithinTolerance(pt, vm) :
                                 Dist2(pt, vm[k]) <= Dist2(pt, vm[j])}) - 1,
          vmap |-> vm]
    ELSE [key |-> Len(vm), vmap |-> Append(vm, pt)]

get_or_create_vertex(pt, vm) ==
    IF WithinTolerance(pt, vm) # {}
    THEN [key |-> SetMin(WithinTolerance(pt, vm)) - 1, vmap |-> vm]
    ELSE [key |-> Len(vm), vmap |-> Append(vm, pt)]

\* network.add_node creates an empty edge dict for the new key
add_node(e, n) == IF Len(e) < n THEN e \o [k \in 1..(n - Len(e)) |-> <<>>] ELSE e

\* network.add_edge(u, v): edge[u][v] = data, a dict entry per (u, v)
add_edge(e, u, v) ==
    IF v \in Range(e[u + 1]) THEN e
    ELSE [e EXCEPT ![u + 1] = Append(@, v)]

\* network.neighbors(node): keys of adjacency[node], symmetric in u and v
neighbors(e, node) ==
    {v \in 0..(Len(e) - 1) : v \in Range(e[node + 1]) \/ node \in Range(e[v + 1])}

\* network.edges(): every (u, v) of the edge dict, by u then by insertion
RECURSIVE EdgesFrom(_, _)
EdgesFrom(e, k) ==
    IF k > Len(e) THEN <<>>
    ELSE [j \in 1..Len(e[k]) |-> <<k - 1, e[k][j]>>] \o EdgesFrom(e, k + 1)

network_edges(e) == EdgesFrom(e, 1)

number_of_edges(e) == Len(network_edges(e))

\* network_data as dumped to truss_network.json
network_data(vm, e) ==
    [nodes |-> [k \in 1..Len(vm) |->
                   [x |-> vm[k][1], y |-> vm[k][2], z |-> vm[k][3],
                    degree |-> Cardinality(neighbors(e, k - 1))]],
     edges |-> [j \in 1..number_of_edges(e) |->
                   [start |-> network_edges(e)[j][1],
                    end   |-> network_edges(e)[j][2]]],
     total_nodes |-> Len(vm),
     total_edges |-> number_of_edges(e)]

\* variant: an empty selection goes on to the dump
Select_NoExit ==
    /\ pc01 = "select"
    /\ \E n \in 0..MaxLines :
          /\ n_selected' = n
          /\ pc01' = IF n = 0 THEN "save" ELSE "build"
    /\ UNCHANGED <<i, vertex_map, edge, v_ids, resolved, network_file,
                   pc02, spec_file>>
    /\ UNCHANGED <<loadvars, stagevars, lapvars>>

\* rs.GetObjects: the user selects n lines; nothing selected exits the script
Select ==
    /\ pc01 = "select"
    /\ \E n \in 0..MaxLines :
          /\ n_selected' = n
          /\ pc01' = IF n = 0 THEN "exit" ELSE "build"
    /\ UNCHANGED <<i, vertex_map, edge, v_ids, resolved, network_file,
                   pc02, spec_file>>
    /\ UNCHANGED <<loadvars, stagevars, lapvars>>

\* variant: the loop body without the "if v_start != v_end" test
AddLine_NoGuard ==
    /\ pc01 = "build"
    /\ i < n_selected
    /\ \E line \in Lines :
          LET r1 == get_or_create_vertex(line.start, vertex_map)
              r2 == get_or_create_vertex(line.end, r1.vmap)
              e1 == add_node(edge, Len(r2.vmap))
          IN  /\ vertex_map' = r2.vmap
              /\ edge' = add_edge(e1, r1.key, r2.key)
              /\ v_ids' = Append(v_ids, <<r1.key, r2.key>>)
              /\ resolved' = resolved \cup {<<line.start, r1.key>>,
                                            <<line.end, r2.key>>}
    /\ i' = i + 1
    /\ pc01' = IF i + 1 = n_selected THEN "save" ELSE "build"
    /\ UNCHANGED <<n_selected, network_file, pc02, spec_file>>
    /\ UNCHANGED <<loadvars, stagevars, lapvars>>

\* one iteration of the "Adding edges" loop
AddLine ==
    /\ pc01 = "build"
    /\ i < n_selected
    /\ \E line \in Lines :
          LET r1 == get_or_create_vertex(line.start, vertex_map)
              r2 == get_or_create_vertex(line.end, r1.vmap)
              e1 == add_node(edge, Len(r2.vmap))
          IN  /\ vertex_map' = r2.vmap
              /\ edge' = IF r1.key # r2.key THEN add_edge(e1, r1.key, r2.key)
                         ELSE e1
              /\ v_ids' = Append(v_ids, <<r1.key, r2.key>>)
              /\ resolved' = resolved \cup {<<line.start, r1.key>>,
                                            <<line.end, r2.key>>}
    /\ i' = i + 1
    /\ pc01' = IF i + 1 = n_selected THEN "save" ELSE "build"
    /\ UNCHANGED <<n_selected, network_file, pc02, spec_file>>
    /\ UNCHANGED <<loadvars, stagevars, lapvars>>

\* steps 4-5: the joint summary and the dump of network_data
SaveNetwork ==
    /\ pc01 = "save"
    /\ network_file' = <<network_data(vertex_map, edge)>>
    /\ pc01' = "done"
    /\ UNCHANGED <<n_selected, i, vertex_map, edge, v_ids, resolved,
                   pc02, spec_file>>
    /\ UNCHANGED <<loadvars, stagevars, lapvars>>

\* ------------------------------------------------- 02 Connector Analysis
NoKey == "NoKey"

\* variant: the last branch tests "degree > 4"
connector_type_gt4(degree) ==
    IF degree = 1 THEN [type |-> "END_CONNECTOR", rod_count |-> 2]
    ELSE IF degree = 2 THEN [type |-> "LINEAR_SPLICE", rod_count |-> 3]
    ELSE IF degree = 3 THEN [type |-> "Y_JOINT", rod_count |-> 4]
    ELSE IF degree > 4 THEN [type |-> "COMPLEX_JOINT", rod_count |-> 6]
    ELSE [type |-> NoKey, rod_count |-> NoKey]

\* the if/elif chain on degree; no branch leaves 'type' and 'rod_count' unset
connector_type(degree) ==
    IF degree = 1 THEN [type |-> "END_CONNECTOR", rod_count |-> 2]
    ELSE IF degree = 2 THEN [type |-> "LINEAR_SPLICE", rod_count |-> 3]
    ELSE IF degree = 3 THEN [type |-> "Y_JOINT", rod_count |-> 4]
    ELSE IF degree >= 4 THEN [type |-> "COMPLEX_JOINT", rod_count |-> 6]
    ELSE [type |-> NoKey, rod_count |-> NoKey]

connector_types(nd) ==
    [k \in 1..Len(nd.nodes) |->
        [node_id   |-> k - 1,
         degree    |-> nd.nodes[k].degree,
         type      |-> connector_type(nd.nodes[k].degree).type,
         rod_count |-> connector_type(nd.nodes[k].degree).rod_count]]

\* the whole script: a missing network file exits; c['type'] on a connector
\* without that key raises KeyError before anything is written
RunClassifier ==
    /\ IF network_file = NoFile
       THEN /\ pc02' = "exit"
            /\ UNCHANGED spec_file
       ELSE LET ct == connector_types(network_file[1])
            IN  IF \E k \in 1..Len(ct) : ct[k].type = NoKey
                THEN /\ pc02' = "crashed"
                     /\ UNCHANGED spec_file
                ELSE /\ pc02' = "done"
                     /\ spec_file' = <<[connectors |-> ct,
                                       total_connectors |-> Len(ct)]>>
    /\ UNCHANGED <<pc01, n_selected, i, vertex_map, edge, v_ids, resolved,
                   network_file>>
    /\ UNCHANGED <<loadvars, stagevars, lapvars>>

\* ------------------------------------------------- 04 Connector Engineer
\* Forces are integers in newtons.  The combined load is sqrt(S) for
\* S = vertical^2 + lateral^2 + tension^2, so every comparison of the script
\* is decided exactly as a comparison of sqrt(S) with a fraction n/d.

\* MATERIAL['compression_perpendicular_adjusted'] = 3.1 * 0.90 MPa, in 1/100 MPa
base_compression_perpendicular_x10 == 31
moisture_condition_factor_x10 == 9
compression_perpendicular_adjusted_x100 ==
    base_compression_perpendicular_x10 * moisture_condition_factor_x10

\* FASTENER['bearing_area_mm2'] = 8.0 * 60
bearing_area_mm2 == 480

\* FASTENER['capacity_single_shear_N'] = 2.79 * 480 = 1339.2, in 1/100 N
capacity_single_shear_x100 ==
    compression_perpendicular_adjusted_x100 * bearing_area_mm2

\* SAFETY
load_factor_x100 == 125
minimum_rods == 2

\* sqrt(S) <= n/d and sqrt(S) >= n/d for naturals S, n and d > 0, without
\* forming d^2 * S: with q = n div d the fraction lies in [q, q+1).
SqrtLeq(S, n, d) ==
    LET q == n \div d
        f == n % d
    IN  IF q >= 46341 THEN TRUE
        ELSE IF S <= q * q THEN TRUE
        ELSE IF S >= (q + 1) * (q + 1) THEN FALSE
        ELSE d * d * (S - q * q) <= 2 * q * f * d + f * f

SqrtGeq(S, n, d) ==
    LET q == n \div d
        f == n % d
    IN  IF q >= 46341 THEN FALSE
        ELSE IF S >= (q + 1) * (q + 1) THEN TRUE
        ELSE IF S < q * q THEN FALSE
        ELSE d * d * (S - q * q) >= 2 * q * f * d + f * f

\* combined_load ** 2
combined_sq(l) == l.vertical_N * l.vertical_N + l.lateral_N * l.lateral_N
                + l.tension_N * l.tension_N

\* variant: the count is rounded up, k is reached iff design / capacity > k - 1
RodsReach_Ceil(S, k) ==
    ~SqrtLeq(S, (k - 1) * (capacity_single_shear_x100 \div 5),
             load_factor_x100 \div 5)

\* int(rods_required_exact + 0.5) = k  iff  k - 1/2 <= design / capacity, i.e.
\* sqrt(S) >= (2k - 1) * capacity_x100 / (2 * load_factor_x100)
RodsReach(S, k) ==
    SqrtGeq(S, (2 * k - 1) * (capacity_single_shear_x100 \div 10),
            (2 * load_factor_x100) \div 10)

MaxRodsSearch == 12

rods_rounded(S) ==
    CHOOSE k \in 0..MaxRodsSearch :
        /\ k = 0 \/ RodsReach(S, k)
        /\ ~RodsReach(S, k + 1)

\* variant: the rounded count without the minimum
rods_required_nomin(S) == rods_rounded(S)

rods_required(S) ==
    IF rods_rounded(S) > minimum_rods THEN rods_rounded(S) ELSE minimum_rods

\* utilization <= 100  iff  design_load <= rods * capacity, i.e.
\* sqrt(S) <= rods * capacity_x100 / load_factor_x100
utilization_ok(S, rods) ==
    SqrtLeq(S, rods * (capacity_single_shear_x100 \div 5), load_factor_x100 \div 5)

\* calculate_block_size_for_load: smallest standard size s with
\* s >= sqrt(1.5 * load / bearing_stress), i.e. sqrt(S) <= s^2 * 2.79 / 1.5
standard_sizes == {100, 120, 150, 180, 200, 250}

block_fits(S, s) ==
    SqrtLeq(S, s * s * (compression_perpendicular_adjusted_x100 \div 3), 50)

calculate_block_size_for_load(S) ==
    IF \E s \in standard_sizes : block_fits(S, s)
    THEN SetMin({s \in standard_sizes : block_fits(S, s)})
    ELSE 250

\* one pass of the loop body for the loads l.  rods_required is the local of
\* that name; the record is stored unless margin_percent divides by a zero
\* required_area, which raises ZeroDivisionError inside the block sizing
engineering_result(l) ==
    LET S == combined_sq(l)
        rods == rods_required(S)
    IN  IF S = 0
        THEN [loads |-> l, rods_required |-> rods,
              raised |-> "ZeroDivisionError",
              rods_required_final |-> NoKey, status |-> NoKey,
              recommended_size_mm |-> NoKey]
        ELSE [loads |-> l, rods_required |-> rods,
              raised |-> "none",
              rods_required_final |-> rods,
              status |-> IF utilization_ok(S, rods) THEN "OK" ELSE "OVER",
              recommended_size_mm |-> calculate_block_size_for_load(S)]

\* the body of the "for node_id, loads in sorted(NODE_LOADS.items())" loop
EngineerNode ==
    /\ eng = NoFile
    /\ eng' = <<engineering_result(loads)>>
    /\ UNCHANGED <<loads, engineered_file, combined_load, block_info>>
    /\ UNCHANGED <<netvars, stagevars, lapvars>>

\* calculate_block_size_for_load on the load itself, in whole newtons:
\* s >= base_size  iff  s^2 >= 1.5 * load_N / bearing_stress
final_size_mm(load_N) ==
    LET fits == {sz \in standard_sizes :
                    compression_perpendicular_adjusted_x100 * sz * sz
                        >= 150 * load_N}
    IN  IF fits # {} THEN SetMin(fits) ELSE 250

\* variant: the block is sized for the factored design load
SizeBlock_Factored ==
    /\ block_info = NoFile
    /\ block_info' =
          IF combined_load = 0
          THEN <<[raised |-> "ZeroDivisionError", design_load_x100 |-> 0,
                  final_size_mm |-> NoKey]>>
          ELSE <<[raised |-> "none",
                  design_load_x100 |-> combined_load * load_factor_x100,
                  final_size_mm |->
                      final_size_mm((combined_load * load_factor_x100) \div 100)]>>
    /\ UNCHANGED <<loads, eng, engineered_file, combined_load>>
    /\ UNCHANGED <<netvars, stagevars, lapvars>>

\* the loop body for a node loaded along one axis, where combined_load is
\* the load itself: the design load, then the block sized for combined_load;
\* a zero load raises ZeroDivisionError in margin_percent
SizeBlock ==
    /\ block_info = NoFile
    /\ block_info' =
          IF combined_load = 0
          THEN <<[raised |-> "ZeroDivisionError", design_load_x100 |-> 0,
                  final_size_mm |-> NoKey]>>
          ELSE <<[raised |-> "none",
                  design_load_x100 |-> combined_load * load_factor_x100,
                  final_size_mm |-> final_size_mm(combined_load)]>>
    /\ UNCHANGED <<loads, eng, engineered_file, combined_load>>
    /\ UNCHANGED <<netvars, stagevars, lapvars>>

\* the literal NODE_LOADS: node id |-> <<vertical_N, lateral_N, tension_N>>
NODE_LOADS ==
    LET t == << <<0, 2800, 0>>, <<4000, 0, 0>>, <<2000, 1500, 0>>,
                <<0, 2800, 0>>, <<0, 2800, 0>>, <<0, 0, 1200>>,
                <<1500, 0, 0>>, <<0, 2800, 0>>, <<2000, 1500, 0>>,
                <<4000, 0, 0>>, <<0, 0, 1200>>, <<0, 2800, 0>>,
                <<0, 2800, 0>> >>
    IN  [id \in 0..(Len(t) - 1) |->
            [vertical_N |-> t[id + 1][1], lateral_N |-> t[id + 1][2],
             tension_N |-> t[id + 1][3]]]

\* the whole script: it loops over NODE_LOADS, reads no file, and dumps
\* ENGINEERING_RESULTS as the 'nodes' of truss_connector_engineered.json
RunEngineer ==
    /\ pc01 = "done"
    /\ engineered_file = NoFile
    /\ engineered_file' =
          <<[nodes |-> [id \in DOMAIN NODE_LOADS |->
                           engineering_result(NODE_LOADS[id])],
             total_nodes |-> Cardinality(DOMAIN NODE_LOADS)]>>
    /\ UNCHANGED <<loads, eng, combined_load, block_info>>
    /\ UNCHANGED <<netvars, stagevars, lapvars>>

\* ------------------------------------------- the scripts as batch stages
\* Each script is one invocation over the output directory: it reads the
\* upstream files named at its top, then exits, raises, or runs to its end
\* and leaves its own files (or its objects in the Rhino document).
Artifacts == {"truss_network.json", "truss_connector_spec.json",
              "truss_connector_engineered.json", "half_lap_specifications.csv"}

\* the upstream files each script opens
Reads(stage) ==
    CASE stage = "01" -> {}
      [] stage = "02" -> {"truss_network.json"}
      [] stage = "03" -> {"truss_connector_spec.json"}
      [] stage = "04" -> {}
      [] stage = "04a" -> {"truss_connector_spec.json", "truss_network.json"}
      [] stage = "05" -> {"truss_network.json"}
      [] stage = "06" -> {"truss_network.json", "half_lap_specifications.csv"}
      [] stage = "07" -> {"truss_network.json", "truss_connector_engineered.json"}
      [] stage = "09" -> {"truss_connector_engineered.json", "truss_network.json"}

Invoke(stage, outcome, wrote) ==
    /\ fs' = fs \cup wrote
    /\ last_run' = [stage |-> stage, missing |-> Reads(stage) \ fs,
                    outcome |-> outcome, wrote |-> wrote]
    /\ UNCHANGED <<netvars, loadvars, lapvars>>

\* 01: nothing selected exits; otherwise the network is built and dumped
Stage01 ==
    \E selected \in BOOLEAN :
        IF ~selected THEN Invoke("01", "exit", {})
        ELSE Invoke("01", "completed", {"truss_network.json"})

\* 02: os.path.exists guard, then the classification; c['type'] raises
\* KeyError when the network holds a node no branch classified
Stage02 ==
    IF "truss_network.json" \notin fs THEN Invoke("02", "exit", {})
    ELSE \E isolated \in BOOLEAN :
            IF isolated THEN Invoke("02", "raised", {})
            ELSE Invoke("02", "completed", {"truss_connector_spec.json"})

\* 03: os.path.exists guard on the connector spec
Stage03 ==
    IF "truss_connector_spec.json" \notin fs THEN Invoke("03", "exit", {})
    ELSE Invoke("03", "completed", {"truss_connectors_detail.csv"})

\* 04: computes from the NODE_LOADS literal; opens no upstream file
Stage04 ==
    Invoke("04", "completed", {"truss_connector_engineered.json",
                               "connector_engineering_report.csv"})

\* 04a: try/except around each load, exit() on failure
Stage04a ==
    IF "truss_connector_spec.json" \notin fs THEN Invoke("04a", "exit", {})
    ELSE IF "truss_network.json" \notin fs THEN Invoke("04a", "exit", {})
    ELSE Invoke("04a", "completed", {"connector_void_specifications.csv"})

\* variant: the detector also writes the network file back
Stage05_RewritesNetwork ==
    IF "truss_network.json" \notin fs THEN Invoke("05", "exit", {})
    ELSE Invoke("05", "completed", {"half_lap_specifications.csv",
                                    "truss_network.json"})

\* 05: os.path.exists guard; the CSV is written even without intersections
Stage05 ==
    IF "truss_network.json" \notin fs THEN Invoke("05", "exit", {})
    ELSE Invoke("05", "completed", {"half_lap_specifications.csv"})

\* 06: open(network_file) is unguarded and raises; a missing half-lap file
\* leaves halflap_specs empty and the beams are created without cuts
Stage06 ==
    IF "truss_network.json" \notin fs THEN Invoke("06", "raised", {})
    ELSE Invoke("06", "completed", {"COMPAS_Beams_HalfLap"})

\* 07: try/except around each load, exit() on failure
Stage07 ==
    IF "truss_network.json" \notin fs THEN Invoke("07", "exit", {})
    ELSE IF "truss_connector_engineered.json" \notin fs
    THEN Invoke("07", "exit", {})
    ELSE Invoke("07", "completed", {"panel_specifications.json"})

\* 09: a missing engineered file falls back to the topological spec; exit()
\* only when that is missing too, or when the network is missing
Stage09 ==
    IF /\ "truss_connector_engineered.json" \notin fs
       /\ "truss_connector_spec.json" \notin fs
    THEN Invoke("09", "exit", {})
    ELSE IF "truss_network.json" \notin fs THEN Invoke("09", "exit", {})
    ELSE Invoke("09", "completed", {"COMPAS_Voids"})

\* ------------------------------------------------- 05 Half-Lap Detector
\* Lengths are integers in half millimetres, so that half the 97 mm beam
\* height is a whole number.  The nodes lie on a square grid in the plane
\* z = 0 and every beam runs along a coordinate axis, which makes each beam
\* box an axis-aligned box [lo, hi].
BEAM_WIDTH == 46
BEAM_HEIGHT == 97
Span == 500            \* grid spacing in mm

GridN == MaxGrid + 1

\* node k of the network artifact, k in 0..GridN^2-1, in half millimetres
node_points(k) == <<2 * Span * (k \div GridN), 2 * Span * (k % GridN), 0>>

LapNodes == 0..(GridN * GridN - 1)

AxisAligned(u, v) ==
    /\ u # v
    /\ Cardinality({c \in 1..3 : node_points(u)[c] # node_points(v)[c]}) = 1

\* the axis (1, 2 or 3) the beam runs along
BeamAxis(sp, ep) == CHOOSE c \in 1..3 : sp[c] # ep[c]

\* perp1 = beam_dir x Z unless the beam is nearly vertical, then beam_dir x X;
\* for a beam along an axis this is the axis below
Perp1Axis(axis) == IF axis = 1 THEN 2 ELSE IF axis = 2 THEN 1 ELSE 2

Min2(a, b) == IF a < b THEN a ELSE b
Max2(a, b) == IF a > b THEN a ELSE b

\* create_beam_box: the box of the full edge length about the midpoint, the
\* width along perp1 and the height along perp2
create_beam_box(sp, ep, width, height) ==
    LET axis == BeamAxis(sp, ep)
        p1 == Perp1Axis(axis)
        half(c) == IF c = axis THEN 0 ELSE IF c = p1 THEN width ELSE height
    IN  [lo |-> [c \in 1..3 |-> Min2(sp[c], ep[c]) - half(c)],
         hi |-> [c \in 1..3 |-> Max2(sp[c], ep[c]) + half(c)]]

\* the beams dict: one entry per key "start-end", in first-insertion order
\* variant: the key is the unordered node pair
RECURSIVE BeamKeys_Unordered(_)
BeamKeys_Unordered(es) ==
    IF es = <<>> THEN <<>>
    ELSE LET rest == BeamKeys_Unordered(SubSeq(es, 1, Len(es) - 1))
             last == es[Len(es)]
         IN  IF \E r \in Range(rest) : {r[1], r[2]} = {last[1], last[2]}
             THEN rest ELSE Append(rest, last)

RECURSIVE BeamKeys(_)
BeamKeys(es) ==
    IF es = <<>> THEN <<>>
    ELSE LET rest == BeamKeys(SubSeq(es, 1, Len(es) - 1))
             last == es[Len(es)]
         IN  IF last \in Range(rest) THEN rest ELSE Append(rest, last)

beam_data(key) ==
    [start_node |-> key[1], end_node |-> key[2],
     brep |-> create_beam_box(node_points(key[1]), node_points(key[2]),
                              BEAM_WIDTH, BEAM_HEIGHT),
     axis |-> BeamAxis(node_points(key[1]), node_points(key[2]))]

\* Brep.CreateBooleanIntersection returns a solid exactly when the two boxes
\* overlap in a set of positive volume
OverlapVolume(b1, b2) ==
    \A c \in 1..3 : Max2(b1.lo[c], b2.lo[c]) < Min2(b1.hi[c], b2.hi[c])

\* the pairs (i, j), i < j, in the order of the nested loops
PairSet(n) == {p \in (1..n) \X (1..n) : p[1] < p[2]}

PairBefore(p, q) == p[1] < q[1] \/ (p[1] = q[1] /\ p[2] < q[2])

PairList(n) ==
    [k \in 1..Cardinality(PairSet(n)) |->
        CHOOSE p \in PairSet(n) :
            Cardinality({q \in PairSet(n) : PairBefore(q, p)}) = k - 1]

\* acos(abs(dot)) for axis-parallel unit directions: 0 or 90 degrees
angle_deg(d1, d2) == IF d1.axis = d2.axis THEN 0 ELSE 90

\* sin(angle) < 0.087 gives 200, otherwise 3 * BEAM_WIDTH / sin(angle);
\* then min(., 300) and max(., 92)
cut_length(angle) ==
    LET optimal_cut_length == IF angle = 0 THEN 200 ELSE BEAM_WIDTH * 3
    IN  Max2(Min2(optimal_cut_length, 300), 92)

intersection_record(k1, k2) ==
    [beam1_start |-> k1[1], beam1_end |-> k1[2],
     beam2_start |-> k2[1], beam2_end |-> k2[2],
     angle_deg |-> angle_deg(beam_data(k1), beam_data(k2)),
     cut_length |-> cut_length(angle_deg(beam_data(k1), beam_data(k2))),
     cut_width |-> BEAM_WIDTH]

\* variant: a pair whose boolean intersection raises ends the pair loops
RunDetector_Abort ==
    /\ pc05 = "start"
    /\ LET beam_list == BeamKeys(lap_edges)
           pairs == PairList(Len(beam_list))
       IN  \E failed \in SUBSET PairSet(Len(beam_list)) :
              /\ Cardinality(failed) <= MaxFailures
              /\ LET hit(p) ==
                        /\ p \notin failed
                        /\ \A q \in failed : PairBefore(p, q)
                        /\ OverlapVolume(beam_data(beam_list[p[1]]).brep,
                                         beam_data(beam_list[p[2]]).brep)
                     found == SelectSeq(pairs, hit)
                 IN  /\ intersections' =
                           [k \in 1..Len(found) |->
                               intersection_record(beam_list[found[k][1]],
                                                   beam_list[found[k][2]])]
                     /\ halflap_file' =
                           IF Len(found) > 0 THEN <<intersections'>>
                           ELSE <<"No intersections detected">>
                     /\ tested' = [k \in 1..Len(pairs) |->
                                      <<beam_list[pairs[k][1]],
                                        beam_list[pairs[k][2]]>>]
                     /\ raised' = {<<beam_list[p[1]], beam_list[p[2]]>> :
                                      p \in failed}
                     /\ summary' =
                           <<[beams |-> Len(beam_list),
                              pairs |-> (Len(beam_list)
                                         * (Len(beam_list) - 1)) \div 2,
                              intersections |-> Len(found),
                              cuts |-> Len(found) * 2]>>
    /\ pc05' = "done"
    /\ UNCHANGED <<lap_edges, beam_pair, cut_records, pc06, cuts>>
    /\ UNCHANGED <<netvars, loadvars, stagevars>>

\* the whole script on an existing network file: every pair i < j is tested;
\* a pair whose boolean intersection raises is passed over; the summary prints
\* the beams, the pairs, the intersections found and the cuts needed
RunDetector ==
    /\ pc05 = "start"
    /\ LET beam_list == BeamKeys(lap_edges)
           pairs == PairList(Len(beam_list))
       IN  \E failed \in SUBSET PairSet(Len(beam_list)) :
              /\ Cardinality(failed) <= MaxFailures
              /\ LET hit(p) ==
                        /\ p \notin failed
                        /\ OverlapVolume(beam_data(beam_list[p[1]]).brep,
                                         beam_data(beam_list[p[2]]).brep)
                     found == SelectSeq(pairs, hit)
                 IN  /\ intersections' =
                           [k \in 1..Len(found) |->
                               intersection_record(beam_list[found[k][1]],
                                                   beam_list[found[k][2]])]
                     /\ halflap_file' =
                           IF Len(found) > 0 THEN <<intersections'>>
                           ELSE <<"No intersections detected">>
                     /\ tested' = [k \in 1..Len(pairs) |->
                                      <<beam_list[pairs[k][1]],
                                        beam_list[pairs[k][2]]>>]
                     /\ raised' = {<<beam_list[p[1]], beam_list[p[2]]>> :
                                      p \in failed}
                     /\ summary' =
                           <<[beams |-> Len(beam_list),
                              pairs |-> (Len(beam_list)
                                         * (Len(beam_list) - 1)) \div 2,
                              intersections |-> Len(found),
                              cuts |-> Len(found) * 2]>>
    /\ pc05' = "done"
    /\ UNCHANGED <<lap_edges, beam_pair, cut_records, pc06, cuts>>
    /\ UNCHANGED <<netvars, loadvars, stagevars>>

\* ------------------------------------------------- 06 Half-Lap Cutter
\* the row the detector exports for one record, by column name
csv_row(inter) ==
    [Beam1_Start_Node |-> inter.beam1_start,
     Beam1_End_Node |-> inter.beam1_end,
     Beam2_Start_Node |-> inter.beam2_start,
     Beam2_End_Node |-> inter.beam2_end,
     Angle_Between_Beams_Degrees |-> inter.angle_deg,
     Cut_Length_mm |-> inter.cut_length,
     Cut_Width_mm |-> inter.cut_width]

\* the rows csv.DictReader yields: one per exported record; the one-line file
\* "No intersections detected" is a header without rows, and without the file
\* there are no rows
halflap_specs ==
    IF halflap_file = NoFile THEN <<>>
    ELSE [k \in 1..Len(intersections) |-> csv_row(intersections[k])]

\* cut_size for the row spec; row is the variable the reading loop left
\* behind, the last row of the file
cut_size(spec, row) ==
    Min2(IF "cut_length" \in DOMAIN row THEN row.cut_length
         ELSE Max2(BEAM_WIDTH * 2, 120), 200)

\* the beam key of the row's nodes, the other orientation when the first is
\* not a beam
row_beam_key(s, e, beam_solids) ==
    IF <<s, e>> \in beam_solids THEN <<s, e>> ELSE <<e, s>>

\* the whole script: beams from the network file, then one cut per row
\* whose two beams exist
RunCutter ==
    /\ pc06 = "idle"
    /\ LET beam_solids == Range(BeamKeys(lap_edges))
           specs == halflap_specs
           applies(spec) ==
               /\ row_beam_key(spec.Beam1_Start_Node, spec.Beam1_End_Node,
                               beam_solids) \in beam_solids
               /\ row_beam_key(spec.Beam2_Start_Node, spec.Beam2_End_Node,
                               beam_solids) \in beam_solids
           applied == SelectSeq(specs, applies)
       IN  cuts' = [k \in 1..Len(applied) |->
                       [spec |-> applied[k],
                        cut_size |-> cut_size(applied[k], specs[Len(specs)])]]
    /\ pc06' = "done"
    /\ UNCHANGED <<lap_edges, pc05, intersections, halflap_file, beam_pair,
                   cut_records, tested, raised, summary>>
    /\ UNCHANGED <<netvars, loadvars, stagevars>>

\* --------------------------- 05 Half-Lap Detector: angle and cut length
\* A beam direction is the integer vector end - start; the script unitizes
\* it.  With P = |d1|^2 |d2|^2 and dot the integer dot product, the unit
\* vectors have cos = dot / sqrt(P), so sin(angle)^2 = (P - dot^2) / P is a
\* fraction, and every comparison of the script is a comparison of fractions.
Dot(u, v) == u[1] * v[1] + u[2] * v[2] + u[3] * v[3]

Neg(u) == <<0 - u[1], 0 - u[2], 0 - u[3]>>

Abs(x) == IF x < 0 THEN 0 - x ELSE x

RECURSIVE GCD(_, _)
GCD(a, b) == IF b = 0 THEN a ELSE GCD(b, a % b)

\* a / b < c / d for a, c >= 0 and b, d > 0, by comparing the whole parts and
\* then the reciprocals of the remainders
RECURSIVE FracLess(_, _, _, _)
FracLess(a, b, c, d) ==
    IF a \div b # c \div d THEN a \div b < c \div d
    ELSE IF c % d = 0 THEN FALSE
    ELSE IF a % b = 0 THEN TRUE
    ELSE FracLess(d, c % d, b, a % b)

\* variant: acos(dot) without the abs
angle_rad_noabs(dir1, dir2) ==
    LET P == Dot(dir1, dir1) * Dot(dir2, dir2)
        dot == Dot(dir1, dir2)
        g == GCD(P - dot * dot, P)
    IN  [sin_sq |-> <<(P - dot * dot) \div g, P \div g>>, obtuse |-> dot < 0]

\* angle_rad = acos(abs(dot)) of the clamped dot product: the angle in
\* [0, 90] degrees given by sin^2 as a fraction in lowest terms
angle_rad(dir1, dir2) ==
    LET P == Dot(dir1, dir1) * Dot(dir2, dir2)
        dot == Abs(Dot(dir1, dir2))
        g == GCD(P - dot * dot, P)
    IN  [sin_sq |-> <<(P - dot * dot) \div g, P \div g>>, obtuse |-> dot < 0]

\* a length num / sqrt(a / b) is the record [num, over_sin_sq = <<a, b>>];
\* a plain number has over_sin_sq = <<1, 1>>
Length(num) == [num |-> num, over_sin_sq |-> <<1, 1>>]

\* len1 <= len2 for two such lengths
LengthLeq(len1, len2) ==
    IF len2.over_sin_sq = <<1, 1>>
    THEN ~FracLess(len2.num * len2.num, len1.num * len1.num,
                   len1.over_sin_sq[2], len1.over_sin_sq[1])
    ELSE ~FracLess(len2.num * len2.num * len1.over_sin_sq[1],
                   len1.num * len1.num * len1.over_sin_sq[2],
                   len2.over_sin_sq[1], len2.over_sin_sq[2])

\* sin_angle < 0.087 gives 200, otherwise min_cut_length / sin_angle
optimal_cut_length(angle) ==
    IF FracLess(angle.sin_sq[1], angle.sin_sq[2], 7569, 1000000)
    THEN Length(200)
    ELSE [num |-> BEAM_WIDTH * 3, over_sin_sq |-> angle.sin_sq]

\* variant: only the lower clamp
clamped_cut_length_nomax(optimal) ==
    IF LengthLeq(Length(92), optimal) THEN optimal ELSE Length(92)

\* cut_length = max(min(optimal_cut_length, 300), 92)
clamped_cut_length(optimal) ==
    LET capped == IF LengthLeq(optimal, Length(300)) THEN optimal
                  ELSE Length(300)
    IN  IF LengthLeq(Length(92), capped) THEN capped ELSE Length(92)

\* the part of the intersection record computed from the two directions
cut_record(dir1, dir2) ==
    [angle |-> angle_rad(dir1, dir2),
     optimal_cut_length |-> optimal_cut_length(angle_rad(dir1, dir2)),
     cut_length |->
         clamped_cut_length(optimal_cut_length(angle_rad(dir1, dir2)))]

\* the same two beams as the network file lists them a second time: in the
\* same way, the other way round, or with one edge from end to start
Relisted(bp) ==
    CASE bp.listed = "same" -> <<bp.dir1, bp.dir2>>
      [] bp.listed = "swapped" -> <<bp.dir2, bp.dir1>>
      [] bp.listed = "reversed1" -> <<Neg(bp.dir1), bp.dir2>>
      [] bp.listed = "reversed2" -> <<bp.dir1, Neg(bp.dir2)>>

\* the angle and cut length of an intersecting pair, for both listings
AnalyzePair ==
    /\ cut_records = NoFile
    /\ cut_records' = <<cut_record(beam_pair.dir1, beam_pair.dir2),
                        cut_record(Relisted(beam_pair)[1],
                                   Relisted(beam_pair)[2])>>
    /\ UNCHANGED <<lap_edges, pc05, intersections, halflap_file, beam_pair,
                   tested, raised, summary, pc06, cuts>>
    /\ UNCHANGED <<netvars, loadvars, stagevars>>

\* ------------------------------------------------------------------ claims
\* lines processed so far whose two endpoints resolved to different nodes
EdgeLines == {k \in 1..Len(v_ids) : v_ids[k][1] # v_ids[k][2]}

\* lines processed so far that produced an edge at node n
LinesAt(n) == {k \in EdgeLines : v_ids[k][1] = n \/ v_ids[k][2] = n}

\* C1: any two line endpoints closer to each other than the tolerance have
\* resolved to the same node id, whatever was processed before or between.
C1_MergeWithinTolerance ==
    \A a \in resolved : \A b \in resolved :
        Dist2(a[1], b[1]) < tolerance * tolerance => a[2] = b[2]

NonNegative(l) == l.vertical_N >= 0 /\ l.lateral_N >= 0 /\ l.tension_N >= 0

\* C2: for non-negative loads the final rod count gives utilization <= 100%,
\* so the status flag is never OVER.

C2_UtilizationNeverOver ==
    (eng # NoFile /\ eng[1].raised = "none" /\ NonNegative(loads)) =>
        /\ utilization_ok(combined_sq(loads), eng[1].rods_required_final)
        /\ eng[1].status = "OK"

\* C3: a stage started while an upstream file it reads is absent aborts at
\* once and produces no output.
C3_MissingArtifactAborts ==
    last_run.missing # {} =>
        /\ last_run.outcome \in {"exit", "raised"}
        /\ last_run.wrote = {}

\* C4: edges are never deduplicated: the network, the artifact's edge list
\* and its edge count hold one edge per line that joined two distinct nodes.
C4_EdgesNeverDeduplicated ==
    /\ number_of_edges(edge) = Cardinality(EdgeLines)
    /\ network_file # NoFile =>
          /\ Len(network_file[1].edges) = Cardinality(EdgeLines)
          /\ network_file[1].total_edges = Cardinality(EdgeLines)

\* two beams meet without crossing: they share an end node and their axes
\* have no other point in common
AxisBox(k) == create_beam_box(node_points(k[1]), node_points(k[2]), 0, 0)

MeetOnly(k1, k2) ==
    /\ {k1[1], k1[2]} \cap {k2[1], k2[2]} # {}
    /\ \A c \in 1..3 : Max2(AxisBox(k1).lo[c], AxisBox(k2).lo[c])
                     = Min2(AxisBox(k1).hi[c], AxisBox(k2).hi[c])

\* C5: two beams that only share an endpoint node never produce a record; a
\* record is produced only for a nonzero-volume overlap of the two solids.
C5_MeetingBeamsNotRecorded ==
    \A k \in 1..Len(intersections) :
        LET r == intersections[k]
            k1 == <<r.beam1_start, r.beam1_end>>
            k2 == <<r.beam2_start, r.beam2_end>>
        IN  /\ ~MeetOnly(k1, k2)
            /\ OverlapVolume(beam_data(k1).brep, beam_data(k2).brep)

\* C6: the number of nodes is at most twice the number of lines processed.
C6_NodesAtMostTwiceLines == Len(vertex_map) <= 2 * i

\* two lines processed, none of their four endpoints merged
C6_Witness == i >= 2 /\ Len(vertex_map) = 2 * i

\* every edge of the network joins two distinct existing node ids
C7_EdgesWellFormed ==
    \A j \in 1..number_of_edges(edge) :
        LET uv == network_edges(edge)[j]
        IN  /\ uv[1] # uv[2]
            /\ uv[1] \in 0..(Len(vertex_map) - 1)
            /\ uv[2] \in 0..(Len(vertex_map) - 1)

\* a step that processes a line whose two ends resolved to one node
C7_SelfLoopAddsNoEdge ==
    (/\ Len(v_ids') = Len(v_ids) + 1
     /\ v_ids'[Len(v_ids')][1] = v_ids'[Len(v_ids')][2])
    => network_edges(edge') = network_edges(edge)

\* C7: after any prefix of the lines, every edge joins two distinct node ids
\* that both exist; a line whose ends resolve to one node adds no edge.
C7_EdgesDistinctExisting ==
    [](C7_EdgesWellFormed) /\ [][C7_SelfLoopAddsNoEdge]_vars

\* a line with merged ends was processed and the network holds an edge
C7_Witness ==
    /\ \E k \in 1..Len(v_ids) : v_ids[k][1] = v_ids[k][2]
    /\ number_of_edges(edge) >= 1

\* C8: the degree recorded in the network artifact is, for every node, the
\* number of edges incident to it, one per line that produced an edge there.
C8_DegreeCountsIncidentEdges ==
    network_file # NoFile =>
        \A k \in 1..Len(network_file[1].nodes) :
            /\ network_file[1].nodes[k].degree = Cardinality(LinesAt(k - 1))
            /\ network_file[1].nodes[k].degree =
                  Cardinality({j \in 1..Len(network_file[1].edges) :
                      \/ network_file[1].edges[j].start = k - 1
                      \/ network_file[1].edges[j].end = k - 1})

\* C9: every node of the network the builder produced has degree >= 1.
C9_NoIsolatedNode ==
    network_file # NoFile =>
        \A k \in 1..Len(network_file[1].nodes) :
            network_file[1].nodes[k].degree >= 1

\* C10: a degree-0 node reaching the classifier is excluded from the output
\* while every other node is classified and the connector-spec is written.
C10_IsolatedNodeExcluded ==
    (/\ pc02 \in {"done", "crashed"}
     /\ \E k \in 1..Len(network_file[1].nodes) :
           network_file[1].nodes[k].degree = 0)
    => /\ spec_file # NoFile
       /\ {spec_file[1].connectors[c].node_id :
              c \in 1..Len(spec_file[1].connectors)}
          = {k - 1 : k \in {n \in 1..Len(network_file[1].nodes) :
                               network_file[1].nodes[n].degree >= 1}}

\* C11: after the Load Engineer has run on a network, the engineered file
\* holds exactly one record per node of that network and none for any other
\* node id.
C11_OneRecordPerNetworkNode ==
    (engineered_file # NoFile /\ network_file # NoFile) =>
        DOMAIN engineered_file[1].nodes
            = 0..(network_file[1].total_nodes - 1)

\* the row of the classification table for a degree
TableRow(degree) ==
    CASE degree = 1 -> <<"END_CONNECTOR", 2>>
      [] degree = 2 -> <<"LINEAR_SPLICE", 3>>
      [] degree = 3 -> <<"Y_JOINT", 4>>
      [] degree >= 4 -> <<"COMPLEX_JOINT", 6>>
      [] OTHER -> <<"none", 0>>

\* C12: the classifier maps every degree >= 1, and maps it as 1 ->
\* END_CONNECTOR/2, 2 -> LINEAR_SPLICE/3, 3 -> Y_JOINT/4, >= 4 ->
\* COMPLEX_JOINT/6; the rod count is non-decreasing in the degree.
C12_DegreeTable ==
    (network_file # NoFile /\ pc02 # "idle"
       /\ \A k \in 1..Len(network_file[1].nodes) :
              network_file[1].nodes[k].degree >= 1) =>
        /\ pc02 = "done"
        /\ spec_file # NoFile
        /\ Len(spec_file[1].connectors) = Len(network_file[1].nodes)
        /\ \A k \in 1..Len(spec_file[1].connectors) :
              LET c == spec_file[1].connectors[k]
              IN  /\ c.degree = network_file[1].nodes[k].degree
                  /\ <<c.type, c.rod_count>> = TableRow(c.degree)
        /\ \A a, b \in 1..Len(spec_file[1].connectors) :
              spec_file[1].connectors[a].degree
                  <= spec_file[1].connectors[b].degree
              => spec_file[1].connectors[a].rod_count
                  <= spec_file[1].connectors[b].rod_count

\* a written connector file that holds all four archetypes
C12_Witness ==
    /\ pc02 = "done"
    /\ spec_file # NoFile
    /\ {spec_file[1].connectors[k].degree :
            k \in 1..Len(spec_file[1].connectors)} = 1..4
    /\ {spec_file[1].connectors[k].rod_count :
            k \in 1..Len(spec_file[1].connectors)} = {2, 3, 4, 6}

\* C13: a node with a negative vertical, lateral or tension load is rejected
\* with InvalidLoadError and gets no rod count and no block size.
C13_NegativeLoadRejected ==
    (eng # NoFile /\ ~NonNegative(loads)) =>
        /\ eng[1].raised = "InvalidLoadError"
        /\ eng[1].rods_required_final = NoKey
        /\ eng[1].recommended_size_mm = NoKey

\* C14: for every load triple the rod count is at least the minimum of 2,
\* as computed and as stored.
C14_RodsAtLeastMinimum ==
    eng # NoFile =>
        /\ eng[1].rods_required >= 2
        /\ eng[1].raised = "none" => eng[1].rods_required_final >= 2

\* a stored result whose rounded count is below 2 and whose final count is 2
C14_Witness ==
    /\ eng # NoFile
    /\ eng[1].raised = "none"
    /\ rods_rounded(combined_sq(loads)) < 2
    /\ eng[1].rods_required_final = 2

\* floor of the square root, by bisection on lo <= sqrt(S) < hi
RECURSIVE ISqrtIn(_, _, _)
ISqrtIn(S, lo, hi) ==
    IF hi - lo <= 1 THEN lo
    ELSE LET mid == (lo + hi) \div 2
         IN  IF mid * mid <= S THEN ISqrtIn(S, mid, hi)
             ELSE ISqrtIn(S, lo, mid)

ISqrt(S) == ISqrtIn(S, 0, 46341)

\* truncation of (1.25 * c / 1339.2 + 0.5) for a combined load of c newtons
RoundHalfUp(c) == (250 * c + 133920) \div 267840

C16_BlockCoversRequiredArea ==
    (block_info # NoFile /\ combined_load > 0) =>
        /\ block_info[1].final_size_mm \in {100, 120, 150, 180, 200, 250}
        /\ 279 * block_info[1].final_size_mm * block_info[1].final_size_mm
               >= 100 * combined_load

\* the standard sizes at least sqrt(1.5 * load / 2.79)
Qualifying(load) == {sz \in {100, 120, 150, 180, 200, 250} :
                        279 * sz * sz >= 150 * load}

\* C17: the block size is the smallest standard size that is at least
\* sqrt(1.5 * unfactored combined load / 2.79), or 250 when none is.
C17_SmallestQualifyingSize ==
    (block_info # NoFile /\ combined_load > 0) =>
        /\ block_info[1].raised = "none"
        /\ Qualifying(combined_load) # {} =>
              /\ block_info[1].final_size_mm \in Qualifying(combined_load)
              /\ \A sz \in Qualifying(combined_load) :
                    block_info[1].final_size_mm <= sz
        /\ Qualifying(combined_load) = {} => block_info[1].final_size_mm = 250

\* a load for which 120 is too small and 150 is chosen, and for which the
\* factored load would need 180
C17_Witness ==
    /\ block_info # NoFile
    /\ block_info[1].raised = "none"
    /\ block_info[1].final_size_mm = 150
    /\ 120 \notin Qualifying(combined_load)
    /\ 150 \notin Qualifying((combined_load * 5) \div 4)

\* C18: for every recorded intersection, whatever the angle, the cut length
\* lies within [92, 300].
C18_CutLengthClamped ==
    cut_records # NoFile =>
        \A k \in 1..2 :
            /\ LengthLeq(Length(92), cut_records[k].cut_length)
            /\ LengthLeq(cut_records[k].cut_length, Length(300))

\* an oblique pair whose 138 / sin(angle) exceeds 300 and is cut at 300
C18_Witness ==
    /\ cut_records # NoFile
    /\ cut_records[1].optimal_cut_length.over_sin_sq # <<1, 1>>
    /\ ~LengthLeq(cut_records[1].optimal_cut_length, Length(300))
    /\ cut_records[1].cut_length = Length(300)

\* C19: before clamping the cut length is 200 when sin(angle) < sin(5 deg)
\* and 138 / sin(angle) otherwise (sin(5 deg)^2 lies between 0.007596 and
\* 0.007597); 90 degrees gives 138 and a 3 degree crossing gives 200.
C19_FallbackBelowFiveDegrees ==
    cut_records # NoFile =>
        LET r == cut_records[1]
        IN  /\ FracLess(r.angle.sin_sq[1], r.angle.sin_sq[2], 7596, 1000000)
                  => r.optimal_cut_length = Length(200)
            /\ ~FracLess(r.angle.sin_sq[1], r.angle.sin_sq[2], 7597, 1000000)
                  => r.optimal_cut_length =
                         [num |-> 138, over_sin_sq |-> r.angle.sin_sq]
            /\ r.angle.sin_sq = <<1, 1>> => r.optimal_cut_length = Length(138)

\* C20: the angle and the cut length of a beam pair are the same when the
\* two beams are swapped and when either beam runs from end to start.
C20_SymmetricInBeams ==
    cut_records # NoFile =>
        /\ cut_records[1].angle = cut_records[2].angle
        /\ cut_records[1].cut_length = cut_records[2].cut_length

\* an oblique pair relisted with its first beam reversed
C20_Witness ==
    /\ cut_records # NoFile
    /\ beam_pair.listed = "reversed1"
    /\ Dot(beam_pair.dir1, beam_pair.dir2) > 0
    /\ cut_records[1].angle.sin_sq \notin {<<0, 1>>, <<1, 1>>}

\* C21: an endpoint merges into a node only at a distance strictly below the
\* tolerance, never at exactly the tolerance; and within the ordered input an
\* endpoint position always resolves to one and the same node.
C21_BoundaryExcluded ==
    /\ \A a \in resolved :
          Dist2(a[1], vertex_map[a[2] + 1]) < tolerance * tolerance
    /\ \A a, b \in resolved : a[1] = b[1] => a[2] = b[2]

\* an endpoint exactly the tolerance away from an older node got its own node
C21_Witness ==
    \E a, b \in resolved :
        /\ a[2] < b[2]
        /\ a[1] = vertex_map[a[2] + 1]
        /\ b[1] = vertex_map[b[2] + 1]
        /\ Dist2(a[1], b[1]) = tolerance * tolerance

\* node k - 1 and its position stay as they are in every step, and a new
\* node has the next integer id and the position of an endpoint of the line
\* just processed
C22_NodesFixedInStep ==
    /\ Len(vertex_map') >= Len(vertex_map)
    /\ \A k \in 1..Len(vertex_map) : vertex_map'[k] = vertex_map[k]
    /\ \A k \in (Len(vertex_map) + 1)..Len(vertex_map') :
          /\ <<vertex_map'[k], k - 1>> \in resolved'
          /\ \A a \in resolved : a[2] # k - 1

\* the artifact lists node k - 1 at the position of vertex_map
C22_ArtifactPositions ==
    network_file # NoFile =>
        /\ Len(network_file[1].nodes) = Len(vertex_map)
        /\ \A k \in 1..Len(vertex_map) :
              <<network_file[1].nodes[k].x, network_file[1].nodes[k].y,
                network_file[1].nodes[k].z>> = vertex_map[k]

\* C22: a node's id is the next unused integer from 0 and its position the
\* coordinate of the endpoint that created it; merging a later endpoint
\* changes neither, nor any other node.
C22_NodeFixedAtCreation ==
    [](C22_ArtifactPositions) /\ [][C22_NodesFixedInStep]_vars

\* an endpoint at another coordinate was merged into a node and the artifact
\* still has the node at the coordinate that created it
C22_Witness ==
    /\ network_file # NoFile
    /\ \E a, b \in resolved :
          /\ a[2] = b[2]
          /\ a[1] # b[1]
          /\ <<network_file[1].nodes[a[2] + 1].x,
                network_file[1].nodes[a[2] + 1].y,
                network_file[1].nodes[a[2] + 1].z>> = a[1]

\* C23: with zero lines supplied the script stops before building anything
\* and writes no network file.
C23_EmptySelectionStops ==
    (pc01 # "select" /\ n_selected = 0) =>
        /\ pc01 = "exit"
        /\ vertex_map = <<>>
        /\ edge = <<>>
        /\ i = 0
        /\ network_file = NoFile

\* the empty selection was made and the classifier then found no file
C23_Witness ==
    /\ pc01 = "exit"
    /\ n_selected = 0
    /\ pc02 = "exit"

\* C29: after any prefix of the lines, every two distinct nodes are at a
\* distance of at least the tolerance from each other.
C29_NodesApart ==
    \A a, b \in 1..Len(vertex_map) :
        a # b => Dist2(vertex_map[a], vertex_map[b]) >= tolerance * tolerance

\* two nodes exactly the tolerance apart and a third elsewhere
C29_Witness ==
    /\ Len(vertex_map) >= 3
    /\ \E a, b \in 1..Len(vertex_map) :
          Dist2(vertex_map[a], vertex_map[b]) = tolerance * tolerance

\* C30: an endpoint within the tolerance of several nodes resolves to the
\* earliest created of them, not to the nearest, and creates no node (all
\* nodes stay at least the tolerance apart).
C30_EarliestNodeWins ==
    /\ \A a \in resolved :
          a[2] + 1 = SetMin({k \in 1..Len(vertex_map) :
                               Dist2(a[1], vertex_map[k])
                                   < tolerance * tolerance})
    /\ \A j, k \in 1..Len(vertex_map) :
          j < k => Dist2(vertex_map[j], vertex_map[k])
                       >= tolerance * tolerance

\* an endpoint within the tolerance of two nodes was resolved to the older
\* one although the younger one is strictly nearer
C30_Witness ==
    \E a \in resolved : \E k \in 1..Len(vertex_map) :
        /\ k > a[2] + 1
        /\ Dist2(a[1], vertex_map[k]) < Dist2(a[1], vertex_map[a[2] + 1])
        /\ Len(v_ids) > MaxMergeNodes
        /\ Len(vertex_map) = MaxMergeNodes

\* the records of the detector that name the pair of beam keys t
RecordsOf(t) ==
    {k \in 1..Len(intersections) :
        /\ intersections[k].beam1_start = t[1][1]
        /\ intersections[k].beam1_end = t[1][2]
        /\ intersections[k].beam2_start = t[2][1]
        /\ intersections[k].beam2_end = t[2][2]}

\* C24: when the detector passed over pairs whose intersection raised, one of
\* the counts of its summary is the number of pairs passed over.
C24_SkippedCounted ==
    raised # {} =>
        \E f \in DOMAIN summary[1] : summary[1][f] = Cardinality(raised)

\* C25: a pair whose intersection raised has no record, and that is all the
\* failure changes: every other tested pair whose boxes overlap has its
\* record, and the run ends with the output written.
C25_FailureIsNoIntersection ==
    summary # <<>> =>
        /\ pc05 = "done"
        /\ halflap_file # NoFile
        /\ \A k \in 1..Len(tested) :
              Cardinality(RecordsOf(tested[k])) =
                  IF /\ tested[k] \notin raised
                     /\ OverlapVolume(beam_data(tested[k][1]).brep,
                                      beam_data(tested[k][2]).brep)
                  THEN 1 ELSE 0
        /\ halflap_file = IF intersections # <<>> THEN <<intersections>>
                          ELSE <<"No intersections detected">>

\* a pair raised and a pair tested after it has its record in the output
C25_Witness ==
    /\ pc05 = "done"
    /\ \E a, b \in 1..Len(tested) :
          /\ a < b
          /\ tested[a] \in raised
          /\ RecordsOf(tested[a]) = {}
          /\ RecordsOf(tested[b]) # {}
    /\ halflap_file = <<intersections>>

\* C26: every two distinct edges of the network are tested exactly once, no
\* edge is tested against itself, and each edge is one beam, two edges over
\* the same two nodes included.
C26_EachPairOnce ==
    summary # <<>> =>
        /\ summary[1].beams = Len(lap_edges)
        /\ \A a, b \in 1..Len(lap_edges) :
              a < b =>
                  Cardinality({k \in 1..Len(tested) :
                                  \/ tested[k] = <<lap_edges[a], lap_edges[b]>>
                                  \/ tested[k] = <<lap_edges[b], lap_edges[a]>>})
                      = 1
        /\ \A k \in 1..Len(tested) : tested[k][1] # tested[k][2]
        /\ Len(tested) = summary[1].pairs

\* two edges over the same two nodes, tested against each other
C26_Witness ==
    /\ pc05 = "done"
    /\ \E k \in 1..Len(tested) :
          /\ tested[k][1] = <<tested[k][2][2], tested[k][2][1]>>
          /\ tested[k][1] \in Range(lap_edges)
          /\ tested[k][2] \in Range(lap_edges)
    /\ Len(tested) > 1

\* C28: every cut of the cutter has the size of its row's Cut_Length_mm,
\* capped at 200.
C28_CutSizeFromRow ==
    \A k \in 1..Len(cuts) :
        cuts[k].cut_size = Min2(cuts[k].spec.Cut_Length_mm, 200)

\* C27: a run of the joint classifier, the load engineer or the half-lap
\* detector writes none of the artifacts of other stages: the network file
\* and every other upstream artifact are left as they were.
C27_UpstreamUntouched ==
    /\ last_run.stage = "02" =>
           last_run.wrote \subseteq {"truss_connector_spec.json"}
    /\ last_run.stage = "04" =>
           last_run.wrote \cap {"truss_network.json",
                                "truss_connector_spec.json",
                                "half_lap_specifications.csv"} = {}
    /\ last_run.stage = "05" =>
           last_run.wrote \subseteq {"half_lap_specifications.csv"}

\* the detector completed with the three upstream artifacts present
C27_Witness ==
    /\ last_run.stage = "05"
    /\ last_run.outcome = "completed"
    /\ {"truss_network.json", "truss_connector_spec.json",
        "truss_connector_engineered.json"} \subseteq fs

\* ----------------------------------------------------------- specification
NetIdle ==
    /\ pc01 = "exit"
    /\ n_selected = 0
    /\ i = 0
    /\ vertex_map = <<>>
    /\ edge = <<>>
    /\ v_ids = <<>>
    /\ resolved = {}
    /\ network_file = NoFile
    /\ pc02 = "idle"
    /\ spec_file = NoFile

LoadIdle ==
    /\ loads = [vertical_N |-> 0, lateral_N |-> 0, tension_N |-> 0]
    /\ eng = NoFile
    /\ engineered_file = NoFile
    /\ combined_load = 0
    /\ block_info = NoFile

StageIdle ==
    /\ fs = {}
    /\ last_run = [stage |-> "none", missing |-> {}, outcome |-> "none",
                   wrote |-> {}]

LapIdle ==
    /\ lap_edges = <<>>
    /\ pc05 = "done"
    /\ intersections = <<>>
    /\ halflap_file = NoFile
    /\ beam_pair = [dir1 |-> <<1, 0, 0>>, dir2 |-> <<1, 0, 0>>,
                    listed |-> "same"]
    /\ cut_records = NoFile
    /\ tested = <<>>
    /\ raised = {}
    /\ summary = <<>>
    /\ pc06 = "idle"
    /\ cuts = <<>>

Init ==
    /\ LoadIdle
    /\ StageIdle
    /\ LapIdle
    /\ pc01 = "select"
    /\ n_selected = 0
    /\ i = 0
    /\ vertex_map = <<>>
    /\ edge = <<>>
    /\ v_ids = <<>>
    /\ resolved = {}
    /\ network_file = NoFile
    /\ pc02 = "idle"
    /\ spec_file = NoFile

Next ==
    \/ Select
    \/ AddLine
    \/ SaveNetwork
    \/ RunClassifier

Spec == Init /\ [][Next]_vars

\* one more line processed after lines that left nodes at points of a finer
\* grid, each of those lines with both ends at one point
NearRows == {0, tolerance \div 2}

FinePoints == {<<x, y, 0>> : x \in 0..MaxX, y \in NearRows}

NodeLists(n) ==
    {vm \in [1..n -> FinePoints] :
        \A a, b \in 1..n :
            a < b => Dist2(vm[a], vm[b]) >= tolerance * tolerance}

InitMerge ==
    /\ LoadIdle
    /\ StageIdle
    /\ LapIdle
    /\ pc01 = "build"
    /\ \E n \in 0..MaxMergeNodes :
          /\ vertex_map \in NodeLists(n)
          /\ i = n
          /\ n_selected = n + 1
          /\ edge = [k \in 1..n |-> <<>>]
          /\ v_ids = [k \in 1..n |-> <<k - 1, k - 1>>]
    /\ resolved = {<<vertex_map[k], k - 1>> : k \in 1..Len(vertex_map)}
    /\ network_file = NoFile
    /\ pc02 = "idle"
    /\ spec_file = NoFile

NextMerge == AddLine

SpecMerge == InitMerge /\ [][NextMerge]_vars

\* the classifier on a network file found in the output directory: a graph
\* on up to MaxClassNodes nodes, each edge stored under its lower node id
RECURSIVE SortedSeq(_)
SortedSeq(S) ==
    IF S = {} THEN <<>> ELSE <<SetMin(S)>> \o SortedSeq(S \ {SetMin(S)})

ClassGraphs(n) ==
    {[k \in 1..n |-> SortedSeq({v \in 0..(n - 1) : <<k - 1, v>> \in E})] :
        E \in SUBSET {p \in (0..(n - 1)) \X (0..(n - 1)) : p[1] < p[2]}}

InitClassify ==
    /\ LoadIdle
    /\ StageIdle
    /\ LapIdle
    /\ pc01 = "done"
    /\ n_selected = 0
    /\ i = 0
    /\ vertex_map = <<>>
    /\ edge = <<>>
    /\ v_ids = <<>>
    /\ resolved = {}
    /\ \E n \in 1..MaxClassNodes : \E e \in ClassGraphs(n) :
          network_file = <<network_data([k \in 1..n |-> <<Far * k, 0, 0>>], e)>>
    /\ pc02 = "idle"
    /\ spec_file = NoFile

NextClassify == RunClassifier

SpecClassify == InitClassify /\ [][NextClassify]_vars

\* the load engineer run after such a network file was written
NextEngineer == RunEngineer

SpecEngineer == InitClassify /\ [][NextEngineer]_vars

\* the load engineer applied to one node of NODE_LOADS
LoadValues == {-LoadStep} \cup {LoadStep * k : k \in 0..MaxLoadSteps}

InitLoad ==
    /\ NetIdle
    /\ StageIdle
    /\ LapIdle
    /\ loads \in [vertical_N : LoadValues, lateral_N : LoadValues,
                  tension_N : LoadValues]
    /\ eng = NoFile
    /\ engineered_file = NoFile
    /\ combined_load = 0
    /\ block_info = NoFile

NextLoad == EngineerNode

SpecLoad == InitLoad /\ [][NextLoad]_vars

\* the block sizing of a node loaded along one axis
InitBlock ==
    /\ NetIdle
    /\ StageIdle
    /\ LapIdle
    /\ loads = [vertical_N |-> 0, lateral_N |-> 0, tension_N |-> 0]
    /\ eng = NoFile
    /\ engineered_file = NoFile
    /\ combined_load \in {BlockLoadStep * k : k \in 0..MaxBlockSteps}
    /\ block_info = NoFile

NextBlock == SizeBlock

SpecBlock == InitBlock /\ [][NextBlock]_vars

\* the scripts invoked in any order, any number of times
InitStages ==
    /\ NetIdle
    /\ LoadIdle
    /\ StageIdle
    /\ LapIdle

NextStages ==
    \/ Stage01
    \/ Stage02
    \/ Stage03
    \/ Stage04
    \/ Stage04a
    \/ Stage05
    \/ Stage06
    \/ Stage07
    \/ Stage09

SpecStages == InitStages /\ [][NextStages]_vars

\* the detector on a network file of axis-parallel beams: the edge list of a
\* network lists each (start, end) once, grouped by start node
LapEdges == {e \in LapNodes \X LapNodes : AxisAligned(e[1], e[2])}

EdgeLists(n) ==
    {es \in [1..n -> LapEdges] :
        /\ \A a, b \in 1..n : a < b => es[a] # es[b]
        /\ \A a \in 1..(n - 1) : es[a][1] <= es[a + 1][1]}

InitLap ==
    /\ NetIdle
    /\ LoadIdle
    /\ StageIdle
    /\ \E n \in 0..MaxBeams : lap_edges \in EdgeLists(n)
    /\ pc05 = "start"
    /\ intersections = <<>>
    /\ halflap_file = NoFile
    /\ beam_pair = [dir1 |-> <<1, 0, 0>>, dir2 |-> <<1, 0, 0>>,
                    listed |-> "same"]
    /\ cut_records = NoFile
    /\ tested = <<>>
    /\ raised = {}
    /\ summary = <<>>
    /\ pc06 = "idle"
    /\ cuts = <<>>

NextLap == RunDetector \/ RunCutter

SpecLap == InitLap /\ [][NextLap]_vars

\* the detector on the networks over the four nodes of the grid cell at the
\* origin
CellNodes == {0, 1, GridN, GridN + 1}

CellEdgeLists(n) ==
    {es \in [1..n -> {e \in LapEdges : e[1] \in CellNodes /\ e[2] \in CellNodes}] :
        /\ \A a, b \in 1..n : a < b => es[a] # es[b]
        /\ \A a \in 1..(n - 1) : es[a][1] <= es[a + 1][1]}

InitPairs ==
    /\ NetIdle
    /\ LoadIdle
    /\ StageIdle
    /\ \E n \in 0..MaxBeams : lap_edges \in CellEdgeLists(n)
    /\ pc05 = "start"
    /\ intersections = <<>>
    /\ halflap_file = NoFile
    /\ beam_pair = [dir1 |-> <<1, 0, 0>>, dir2 |-> <<1, 0, 0>>,
                    listed |-> "same"]
    /\ cut_records = NoFile
    /\ tested = <<>>
    /\ raised = {}
    /\ summary = <<>>
    /\ pc06 = "idle"
    /\ cuts = <<>>

NextPairs == RunDetector

SpecPairs == InitPairs /\ [][NextPairs]_vars

\* the angle and cut length of one intersecting pair of beams; the
\* directions include a 90, a 45, an 18.4, a 4.99 and a 3.01 degree crossing
BeamVectors ==
    LET base == {<<1, 0, 0>>, <<0, 1, 0>>, <<0, 0, 1>>, <<1, 1, 0>>,
                 <<3, 1, 0>>, <<19, 1, 0>>, <<103, 9, 0>>, <<1, 2, 2>>}
    IN  base \cup {Neg(u) : u \in base}

InitCut ==
    /\ NetIdle
    /\ LoadIdle
    /\ StageIdle
    /\ lap_edges = <<>>
    /\ pc05 = "done"
    /\ intersections = <<>>
    /\ halflap_file = NoFile
    /\ beam_pair \in [dir1 : BeamVectors, dir2 : BeamVectors,
                       listed : {"same", "swapped", "reversed1", "reversed2"}]
    /\ cut_records = NoFile
    /\ tested = <<>>
    /\ raised = {}
    /\ summary = <<>>
    /\ pc06 = "idle"
    /\ cuts = <<>>

NextCut == AnalyzePair

SpecCut == InitCut /\ [][NextCut]_vars

====
